---- MODULE Spec2Model ----
(***************************************************************************)
(* Reduced density matrices from an FCI wavefunction: lib/mcscf/fci_rdm.c. *)
(*                                                                         *)
(* Arithmetic is exact.  A double is modelled by an integer that counts    *)
(* multiples of a unit u = 5e-15, so that a squared coefficient counts     *)
(* multiples of u*u = 2.5e-29 and the pruning threshold 1e-28 is 4.  A     *)
(* coefficient 1 lies below the threshold, 2 (the double 1e-14, whose      *)
(* square is the double 1e-28) lies on it, 3 lies above it.  C arrays are  *)
(* functions on 0..n-1.                                                    *)
(***************************************************************************)
EXTENDS Integers, Sequences, FiniteSets, TLC

(* ------------------------------ bounds -------------------------------- *)
MaxNorb == 3
MaxCoef == 3
MaxNonZero == 2
MaxThreads == 2
MaxBufBase == 2
MaxCalls == 2

(* ------------------------- program constants -------------------------- *)
\* #define CSUMTHR 1e-28, in units of u*u
CSUMTHR == 4
\* SQRT2 * SQRT2: a column scaled by SQRT2 enters a product of two columns
\* with this weight
SQRT2_SQ == 2
\* sizes of the fields of _LinkT: unsigned char and char hold 2^8 values,
\* unsigned int is held as two halves of 2^16 values
CHAR_RANGE == 256
HALF_RANGE == 65536

(* ------------------------------ helpers ------------------------------- *)
MIN(X, Y) == IF X < Y THEN X ELSE Y

\* f[0] + ... + f[n-1]
RECURSIVE SumTo(_, _)
SumTo(f, n) == IF n <= 0 THEN 0 ELSE f[n - 1] + SumTo(f, n - 1)

\* memset(p, 0, n doubles), and a fresh array of n zeros
Zeros(n) == [e \in 0 .. n - 1 |-> 0]

\* malloc(n doubles): the contents are indeterminate until written
malloc(n) == [e \in 0 .. n - 1 |-> 12345]

(* -------------------- the caller's link lists ------------------------- *)
(* The strings of nelec electrons in norb orbitals, addressed in the      *)
(* order of their bit patterns, and for each string one record            *)
(* (a, i, destination, sign) per single excitation i -> a, the diagonal   *)
(* ones (a = i occupied) first.                                           *)
Pow2(o) == IF o = 0 THEN 1 ELSE IF o = 1 THEN 2 ELSE IF o = 2 THEN 4 ELSE 8

RECURSIVE Mask(_)
Mask(s) == IF s = {} THEN 0
           ELSE LET o == CHOOSE x \in s : TRUE IN Pow2(o) + Mask(s \ {o})

Strs(norb, nelec) == {s \in SUBSET (0 .. norb - 1) : Cardinality(s) = nelec}

StrAddr(norb, s) ==
    Cardinality({t \in Strs(norb, Cardinality(s)) : Mask(t) < Mask(s)})

StrAt(norb, nelec, k) == CHOOSE s \in Strs(norb, nelec) : StrAddr(norb, s) = k

NStr(norb, nelec) == Cardinality(Strs(norb, nelec))

NLink(norb, nelec) == nelec * (norb - nelec + 1)

Nth(S, n) == CHOOSE x \in S : Cardinality({y \in S : y < x}) = n

\* the phase of moving an electron from i to a across the occupied orbitals
\* between them
CreDesSign(s, a, i) ==
    LET lo == MIN(a, i)
        hi == IF a < i THEN i ELSE a
        crossed == Cardinality({o \in s : lo < o /\ o < hi})
    IN  IF crossed % 2 = 0 THEN 1 ELSE -1

\* the j-th record of string s, as <<a, i, destination, sign>>
LinkRec(norb, s, j) ==
    LET occ  == s
        vir  == (0 .. norb - 1) \ s
        nocc == Cardinality(occ)
        nvir == Cardinality(vir)
    IN  IF j < nocc
        THEN LET i == Nth(occ, j) IN <<i, i, StrAddr(norb, s), 1>>
        ELSE LET i == Nth(occ, (j - nocc) \div nvir)
                 a == Nth(vir, (j - nocc) % nvir)
             IN  <<a, i, StrAddr(norb, (s \ {i}) \cup {a}), CreDesSign(s, a, i)>>

\* the flat array of 4 * nlink * nstr integers handed to this file
LinkIndex(norb, nelec) ==
    LET nlink == NLink(norb, nelec)
        nstr  == NStr(norb, nelec)
    IN  [e \in 0 .. 4 * nlink * nstr - 1 |->
            LinkRec(norb, StrAt(norb, nelec, e \div (4 * nlink)),
                    (e \div 4) % nlink)[(e % 4) + 1]]

(* ------------------------------ _LinkT -------------------------------- *)
\* conversion of an int to unsigned char, to char and to unsigned int.
\* Whether plain char is signed is the choice of the build cc: it is on
\* x86, it is not under the AAPCS64 and PowerPC ABIs or -funsigned-char.
ToUChar(x) == x % CHAR_RANGE
ToChar(cc, x) ==
    IF cc.char = "signed"
    THEN ((x + CHAR_RANGE \div 2) % CHAR_RANGE) - CHAR_RANGE \div 2
    ELSE ToUChar(x)
ToUInt(x) ==
    IF x >= 0
    THEN [hi |-> (x \div HALF_RANGE) % HALF_RANGE, lo |-> x % HALF_RANGE]
    ELSE [hi |-> (HALF_RANGE - 1) - (((-x - 1) \div HALF_RANGE) % HALF_RANGE),
          lo |-> (HALF_RANGE - 1) - ((-x - 1) % HALF_RANGE)]

\* conversion of an unsigned int back to int (str1 = EXTRACT_ADDR(tab[j]))
UIntToInt(u) ==
    IF u.hi < HALF_RANGE \div 2
    THEN u.hi * HALF_RANGE + u.lo
    ELSE -(((HALF_RANGE - 1) - u.hi) * HALF_RANGE + ((HALF_RANGE - 1) - u.lo) + 1)

EXTRACT_I(I) == I.i
EXTRACT_A(I) == I.a
EXTRACT_SIGN(I) == I.sign
EXTRACT_ADDR(I) == UIntToInt(I.addr)

\* compress_link: clink[k*nlink + j] from link_index[(k*nlink + j)*4 ..]
compress_link(cc, link_index, norb, nstr, nlink) ==
    [r \in 0 .. nstr * nlink - 1 |->
        LET k == r \div nlink
            j == r % nlink
            base == (k * nlink) * 4
        IN  [a    |-> ToUChar(link_index[base + j * 4 + 0]),
             i    |-> ToUChar(link_index[base + j * 4 + 1]),
             sign |-> ToChar(cc, link_index[base + j * 4 + 3]),
             addr |-> ToUInt(link_index[base + j * 4 + 2])]]

(* --------------------- single-excitation contractors ------------------ *)
(* A contractor returns the T1 buffer it leaves and the sum of squares it *)
(* returns.  ci0 + off is the pointer it is handed.                       *)

\* a contractor that fills t1 as rdm2_a_t1 does and returns 0
rdm2_a_t1_nosum(ci0, off, t1, fillcnt, stra_id, norb, nstrb, nlinka, clink_indexa) ==
    LET nnorb == norb * norb
        tab(j) == clink_indexa[stra_id * nlinka + j]
        pci(j, k) == ci0[off + EXTRACT_ADDR(tab(j)) * nstrb + k]
        hit(j, k, e) == e = k * nnorb + EXTRACT_I(tab(j)) * norb + EXTRACT_A(tab(j))
        term(j, k, e) == IF ~hit(j, k, e) THEN 0
                         ELSE IF EXTRACT_SIGN(tab(j)) > 0 THEN pci(j, k)
                         ELSE -pci(j, k)
    IN  [t1   |-> [e \in DOMAIN t1 |->
                      t1[e] + SumTo([j \in 0 .. nlinka - 1 |->
                                  SumTo([k \in 0 .. fillcnt - 1 |-> term(j, k, e)],
                                        fillcnt)], nlinka)],
         csum |-> 0]

\* rdm2_a_t1: for each record j of string stra_id and each k < fillcnt,
\* t1[k*nnorb + i*norb + a] += or -= pci[k], pci = ci0 + str1*nstrb
rdm2_a_t1(ci0, off, t1, fillcnt, stra_id, norb, nstrb, nlinka, clink_indexa) ==
    LET nnorb == norb * norb
        tab(j) == clink_indexa[stra_id * nlinka + j]
        pci(j, k) == ci0[off + EXTRACT_ADDR(tab(j)) * nstrb + k]
        hit(j, k, e) == e = k * nnorb + EXTRACT_I(tab(j)) * norb + EXTRACT_A(tab(j))
        term(j, k, e) == IF ~hit(j, k, e) THEN 0
                         ELSE IF EXTRACT_SIGN(tab(j)) > 0 THEN pci(j, k)
                         ELSE -pci(j, k)
    IN  [t1   |-> [e \in DOMAIN t1 |->
                      t1[e] + SumTo([j \in 0 .. nlinka - 1 |->
                                  SumTo([k \in 0 .. fillcnt - 1 |-> term(j, k, e)],
                                        fillcnt)], nlinka)],
         csum |-> SumTo([j \in 0 .. nlinka - 1 |->
                      SumTo([k \in 0 .. fillcnt - 1 |-> pci(j, k) * pci(j, k)],
                            fillcnt)], nlinka)]

\* rdm2_0b_t1: for each str0 < fillcnt, column str0 of t1 is zeroed and
\* t1[str0*nnorb + i*norb + a] += sign * pci[str1] for each record of the
\* str0-th string from clink_indexb + cbase, pci = ci0 + stra_id*nstrb
rdm2_0b_t1(ci0, t1, fillcnt, stra_id, norb, nstrb, nlinkb, clink_indexb, cbase) ==
    LET nnorb == norb * norb
        tab(str0, j) == clink_indexb[cbase + str0 * nlinkb + j]
        pci(str0, j) == ci0[stra_id * nstrb + EXTRACT_ADDR(tab(str0, j))]
        term(str0, j, p) ==
            IF p = EXTRACT_I(tab(str0, j)) * norb + EXTRACT_A(tab(str0, j))
            THEN EXTRACT_SIGN(tab(str0, j)) * pci(str0, j) ELSE 0
    IN  [t1   |-> [e \in DOMAIN t1 |->
                      IF e \div nnorb < fillcnt
                      THEN SumTo([j \in 0 .. nlinkb - 1 |->
                                     term(e \div nnorb, j, e % nnorb)], nlinkb)
                      ELSE t1[e]],
         csum |-> SumTo([str0 \in 0 .. fillcnt - 1 |->
                      SumTo([j \in 0 .. nlinkb - 1 |->
                                pci(str0, j) * pci(str0, j)], nlinkb)],
                        fillcnt)]

(* csum = rdm2_0b_t1(..., t1, ...) + rdm2_a_t1(..., t1, ...): the two     *)
(* calls write the same buffer and C leaves the order of the operands of  *)
(* + to the build; order is "LR" (beta first) or "RL" (alpha first).      *)
SumOfContractors(order, ci0, t1, fill0, fill1, stra_id, strb_id, norb, na, nlink, clink_index) ==
    IF order = "LR"
    THEN LET b == rdm2_0b_t1(ci0, t1, fill0, stra_id, norb, na, nlink,
                             clink_index, strb_id * nlink)
             a == rdm2_a_t1(ci0, strb_id, b.t1, fill1, stra_id, norb, na,
                            nlink, clink_index)
         IN  [t1 |-> a.t1, csum |-> b.csum + a.csum]
    ELSE LET a == rdm2_a_t1(ci0, strb_id, t1, fill1, stra_id, norb, na,
                            nlink, clink_index)
             b == rdm2_0b_t1(ci0, a.t1, fill0, stra_id, norb, na, nlink,
                             clink_index, strb_id * nlink)
         IN  [t1 |-> b.t1, csum |-> b.csum + a.csum]

kern_ms0_ab(order, ci0, t1, fillcnt, stra_id, strb_id, norb, na, nlink, clink_index) ==
    SumOfContractors(order, ci0, t1, fillcnt, fillcnt, stra_id, strb_id,
                     norb, na, nlink, clink_index)

(* -------------------------------- BLAS -------------------------------- *)
(* Column-major: A[r + k*lda] is row r of column k.                       *)

\* dgemv_("N", m, n, alpha, A, lda, x, 1, 1.0, y, 1): y += alpha * A * x,
\* x = ci + xoff
dgemv_(m, n, alpha, A, lda, ci, xoff, y) ==
    [r \in DOMAIN y |->
        IF r < m
        THEN y[r] + alpha * SumTo([k \in 0 .. n - 1 |->
                                      A[r + k * lda] * ci[xoff + k]], n)
        ELSE y[r]]

\* dsyrk_("U", "N", n, k, alpha, A, lda, 1.0, C, ldc): the entries
\* C[r + c*ldc], r <= c, of C += alpha * A * A^T; no other entry is
\* touched.  w[kk] is the square of the factor SQRT2 or 1 that column kk
\* of A was multiplied by.
dsyrk_(n, k, alpha, A, w, lda, C, ldc) ==
    [e \in DOMAIN C |->
        LET r == e % ldc
            c == e \div ldc
        IN  IF r <= c /\ c < n
            THEN C[e] + alpha * SumTo([kk \in 0 .. k - 1 |->
                             w[kk] * A[r + kk * lda] * A[c + kk * lda]], k)
            ELSE C[e]]

\* dgemm_("N", "T", m, n, k, alpha, A, lda, B, ldb, 1.0, C, ldc):
\* C += alpha * A * B^T
dgemm_(m, n, k, alpha, A, lda, B, ldb, C, ldc) ==
    [e \in DOMAIN C |->
        LET r == e % ldc
            c == e \div ldc
        IN  IF r < m /\ c < n
            THEN C[e] + alpha * SumTo([kk \in 0 .. k - 1 |->
                             A[r + kk * lda] * B[c + kk * ldb]], k)
            ELSE C[e]]

Ones(n) == [k \in 0 .. n - 1 |-> 1]

(* ------------------------------ kernels ------------------------------- *)
(* A kernel is handed a worker's accumulators and returns them; pruned    *)
(* says that it returned without accumulating, csum holds the sums of     *)
(* squares of its T1 blocks.  cc is the build: cc.order is the order of   *)
(* the operands of +, cc.thr is CSUMTHR.                                  *)

FCIrdm12kern_ms0(cc, dm1, dm2, bra, ket, fillcnt, stra_id, strb_id, norb, na, nb, nlinka, nlinkb, clink_indexa, clink_indexb) ==
    LET nnorb == norb * norb
        buf == malloc(nnorb * fillcnt)
        T == kern_ms0_ab(cc.order, ket, buf, fillcnt, stra_id, strb_id,
                         norb, na, nlinka, clink_indexa)
    IN  IF T.csum > cc.thr
        THEN [rdm1 |-> dgemv_(nnorb, fillcnt, 1, T.t1, nnorb,
                              ket, stra_id * na + strb_id, dm1),
              rdm2 |-> dsyrk_(nnorb, fillcnt, 1, T.t1, Ones(fillcnt), nnorb,
                              dm2, nnorb),
              pruned |-> FALSE, csum |-> <<T.csum>>]
        ELSE [rdm1 |-> dm1, rdm2 |-> dm2, pruned |-> TRUE,
              csum |-> <<T.csum>>]

\* fill0 and fill1 of FCIrdm12kern_spin0: the columns handed to rdm2_0b_t1,
\* and those handed to rdm2_a_t1, dgemv_ and dsyrk_
spin0_fill0(fillcnt, stra_id, strb_id) ==
    IF strb_id + fillcnt < stra_id THEN fillcnt ELSE stra_id - strb_id
spin0_fill1(fillcnt, stra_id, strb_id) ==
    IF strb_id + fillcnt < stra_id THEN fillcnt ELSE stra_id - strb_id + 1

FCIrdm12kern_spin0(cc, dm1, dm2, bra, ket, fillcnt, stra_id, strb_id, norb, na, nb, nlinka, nlinkb, clink_indexa, clink_indexb) ==
    IF stra_id < strb_id
    THEN [rdm1 |-> dm1, rdm2 |-> dm2, pruned |-> FALSE, csum |-> <<>>]
    ELSE
    LET nnorb == norb * norb
        buf == malloc(nnorb * na)
        full == strb_id + fillcnt < stra_id
        fill0 == spin0_fill0(fillcnt, stra_id, strb_id)
        fill1 == spin0_fill1(fillcnt, stra_id, strb_id)
        buf_0 == IF full THEN buf
                 ELSE [e \in DOMAIN buf |->
                          IF fill0 * nnorb <= e /\ e < fill0 * nnorb + nnorb
                          THEN 0 ELSE buf[e]]
        T == SumOfContractors(cc.order, ket, buf_0, fill0, fill1, stra_id,
                              strb_id, norb, na, nlinka, clink_indexa)
        w == [k \in 0 .. fill1 - 1 |-> IF fill0 <= k THEN SQRT2_SQ ELSE 1]
    IN  IF T.csum > cc.thr
        THEN [rdm1 |-> dgemv_(nnorb, fill1, 2, T.t1, nnorb,
                              ket, stra_id * na + strb_id, dm1),
              rdm2 |-> dsyrk_(nnorb, fill1, 2, T.t1, w, nnorb, dm2, nnorb),
              pruned |-> FALSE, csum |-> <<T.csum>>]
        ELSE [rdm1 |-> dm1, rdm2 |-> dm2, pruned |-> TRUE,
              csum |-> <<T.csum>>]

FCItdm12kern_ms0(cc, tdm1, tdm2, bra, ket, fillcnt, stra_id, strb_id, norb, na, nb, nlinka, nlinkb, clink_indexa, clink_indexb) ==
    LET nnorb == norb * norb
        T1 == kern_ms0_ab(cc.order, bra, malloc(nnorb * fillcnt), fillcnt,
                          stra_id, strb_id, norb, na, nlinka, clink_indexa)
        T0 == kern_ms0_ab(cc.order, ket, malloc(nnorb * fillcnt), fillcnt,
                          stra_id, strb_id, norb, na, nlinka, clink_indexa)
    IN  IF T1.csum < cc.thr \/ T0.csum < cc.thr
        THEN [rdm1 |-> tdm1, rdm2 |-> tdm2, pruned |-> TRUE,
              csum |-> <<T1.csum, T0.csum>>]
        ELSE [rdm1 |-> dgemv_(nnorb, fillcnt, 1, T0.t1, nnorb,
                              bra, stra_id * na + strb_id, tdm1),
              rdm2 |-> dgemm_(nnorb, nnorb, fillcnt, 1, T0.t1, nnorb,
                              T1.t1, nnorb, tdm2, nnorb),
              pruned |-> FALSE, csum |-> <<T1.csum, T0.csum>>]

FCIrdm12kern_a(cc, dm1, dm2, bra, ket, fillcnt, stra_id, strb_id, norb, na, nb, nlinka, nlinkb, clink_indexa, clink_indexb) ==
    LET nnorb == norb * norb
        T == rdm2_a_t1(ket, strb_id, Zeros(nnorb * fillcnt), fillcnt, stra_id,
                       norb, nb, nlinka, clink_indexa)
    IN  IF T.csum > cc.thr
        THEN [rdm1 |-> dgemv_(nnorb, fillcnt, 1, T.t1, nnorb,
                              ket, stra_id * nb + strb_id, dm1),
              rdm2 |-> dsyrk_(nnorb, fillcnt, 1, T.t1, Ones(fillcnt), nnorb,
                              dm2, nnorb),
              pruned |-> FALSE, csum |-> <<T.csum>>]
        ELSE [rdm1 |-> dm1, rdm2 |-> dm2, pruned |-> TRUE,
              csum |-> <<T.csum>>]

FCIrdm12kern_b(cc, dm1, dm2, bra, ket, fillcnt, stra_id, strb_id, norb, na, nb, nlinka, nlinkb, clink_indexa, clink_indexb) ==
    LET nnorb == norb * norb
        T == rdm2_0b_t1(ket, malloc(nnorb * fillcnt), fillcnt, stra_id,
                        norb, nb, nlinkb, clink_indexb, strb_id * nlinkb)
    IN  IF T.csum > cc.thr
        THEN [rdm1 |-> dgemv_(nnorb, fillcnt, 1, T.t1, nnorb,
                              ket, stra_id * nb + strb_id, dm1),
              rdm2 |-> dsyrk_(nnorb, fillcnt, 1, T.t1, Ones(fillcnt), nnorb,
                              dm2, nnorb),
              pruned |-> FALSE, csum |-> <<T.csum>>]
        ELSE [rdm1 |-> dm1, rdm2 |-> dm2, pruned |-> TRUE,
              csum |-> <<T.csum>>]

FCItdm12kern_a(cc, tdm1, tdm2, bra, ket, fillcnt, stra_id, strb_id, norb, na, nb, nlinka, nlinkb, clink_indexa, clink_indexb) ==
    LET nnorb == norb * norb
        T1 == rdm2_a_t1(bra, strb_id, Zeros(nnorb * fillcnt), fillcnt, stra_id,
                        norb, nb, nlinka, clink_indexa)
        T0 == rdm2_a_t1(ket, strb_id, Zeros(nnorb * fillcnt), fillcnt, stra_id,
                        norb, nb, nlinka, clink_indexa)
    IN  IF T1.csum < cc.thr \/ T0.csum < cc.thr
        THEN [rdm1 |-> tdm1, rdm2 |-> tdm2, pruned |-> TRUE,
              csum |-> <<T1.csum, T0.csum>>]
        ELSE [rdm1 |-> dgemv_(nnorb, fillcnt, 1, T0.t1, nnorb,
                              bra, stra_id * nb + strb_id, tdm1),
              rdm2 |-> dgemm_(nnorb, nnorb, fillcnt, 1, T0.t1, nnorb,
                              T1.t1, nnorb, tdm2, nnorb),
              pruned |-> FALSE, csum |-> <<T1.csum, T0.csum>>]

FCItdm12kern_b(cc, tdm1, tdm2, bra, ket, fillcnt, stra_id, strb_id, norb, na, nb, nlinka, nlinkb, clink_indexa, clink_indexb) ==
    LET nnorb == norb * norb
        T1 == rdm2_0b_t1(bra, malloc(nnorb * fillcnt), fillcnt, stra_id,
                         norb, nb, nlinkb, clink_indexb, strb_id * nlinkb)
        T0 == rdm2_0b_t1(ket, malloc(nnorb * fillcnt), fillcnt, stra_id,
                         norb, nb, nlinkb, clink_indexb, strb_id * nlinkb)
    IN  IF T1.csum < cc.thr \/ T0.csum < cc.thr
        THEN [rdm1 |-> tdm1, rdm2 |-> tdm2, pruned |-> TRUE,
              csum |-> <<T1.csum, T0.csum>>]
        ELSE [rdm1 |-> dgemv_(nnorb, fillcnt, 1, T0.t1, nnorb,
                              bra, stra_id * nb + strb_id, tdm1),
              rdm2 |-> dgemm_(nnorb, nnorb, fillcnt, 1, T0.t1, nnorb,
                              T1.t1, nnorb, tdm2, nnorb),
              pruned |-> FALSE, csum |-> <<T1.csum, T0.csum>>]

FCItdm12kern_ab(cc, tdm1, tdm2, bra, ket, fillcnt, stra_id, strb_id, norb, na, nb, nlinka, nlinkb, clink_indexa, clink_indexb) ==
    LET nnorb == norb * norb
        Ta == rdm2_a_t1(bra, strb_id, Zeros(nnorb * fillcnt), fillcnt, stra_id,
                        norb, nb, nlinka, clink_indexa)
        Tb == rdm2_0b_t1(ket, malloc(nnorb * fillcnt), fillcnt, stra_id,
                         norb, nb, nlinkb, clink_indexb, strb_id * nlinkb)
    IN  IF Ta.csum < cc.thr \/ Tb.csum < cc.thr
        THEN [rdm1 |-> tdm1, rdm2 |-> tdm2, pruned |-> TRUE,
              csum |-> <<Ta.csum, Tb.csum>>]
        ELSE [rdm1 |-> tdm1,
              rdm2 |-> dgemm_(nnorb, nnorb, fillcnt, 1, Tb.t1, nnorb,
                              Ta.t1, nnorb, tdm2, nnorb),
              pruned |-> FALSE, csum |-> <<Ta.csum, Tb.csum>>]

\* (*dm12kernel)(pdm1, pdm2, bra, ket, blen, strk, ib, ...): the call through
\* the function pointer
Kernels == {"FCIrdm12kern_ms0", "FCIrdm12kern_spin0", "FCItdm12kern_ms0",
            "FCIrdm12kern_a", "FCIrdm12kern_b", "FCItdm12kern_a",
            "FCItdm12kern_b", "FCItdm12kern_ab"}

dm12kernel(kern, cc, dm1, dm2, bra, ket, fillcnt, stra_id, strb_id, norb, na, nb, nlinka, nlinkb, clink_indexa, clink_indexb) ==
    CASE kern = "FCIrdm12kern_ms0" ->
           FCIrdm12kern_ms0(cc, dm1, dm2, bra, ket, fillcnt, stra_id, strb_id,
               norb, na, nb, nlinka, nlinkb, clink_indexa, clink_indexb)
      [] kern = "FCIrdm12kern_spin0" ->
           FCIrdm12kern_spin0(cc, dm1, dm2, bra, ket, fillcnt, stra_id, strb_id,
               norb, na, nb, nlinka, nlinkb, clink_indexa, clink_indexb)
      [] kern = "FCItdm12kern_ms0" ->
           FCItdm12kern_ms0(cc, dm1, dm2, bra, ket, fillcnt, stra_id, strb_id,
               norb, na, nb, nlinka, nlinkb, clink_indexa, clink_indexb)
      [] kern = "FCIrdm12kern_a" ->
           FCIrdm12kern_a(cc, dm1, dm2, bra, ket, fillcnt, stra_id, strb_id,
               norb, na, nb, nlinka, nlinkb, clink_indexa, clink_indexb)
      [] kern = "FCIrdm12kern_b" ->
           FCIrdm12kern_b(cc, dm1, dm2, bra, ket, fillcnt, stra_id, strb_id,
               norb, na, nb, nlinka, nlinkb, clink_indexa, clink_indexb)
      [] kern = "FCItdm12kern_a" ->
           FCItdm12kern_a(cc, dm1, dm2, bra, ket, fillcnt, stra_id, strb_id,
               norb, na, nb, nlinka, nlinkb, clink_indexa, clink_indexb)
      [] kern = "FCItdm12kern_b" ->
           FCItdm12kern_b(cc, dm1, dm2, bra, ket, fillcnt, stra_id, strb_id,
               norb, na, nb, nlinka, nlinkb, clink_indexa, clink_indexb)
      [] kern = "FCItdm12kern_ab" ->
           FCItdm12kern_ab(cc, dm1, dm2, bra, ket, fillcnt, stra_id, strb_id,
               norb, na, nb, nlinka, nlinkb, clink_indexa, clink_indexb)

(* ------------------------------- driver ------------------------------- *)
\* no zeroing at all
memset_skipped(p, n) == p

\* memset(p, 0, n doubles)
memset(p, n) == [e \in DOMAIN p |-> IF e < n THEN 0 ELSE p[e]]

\* a mirroring that copies the other way: m[i*n+j] = m[j*n+i], j < i
MirrorBack(m, n) ==
    [e \in DOMAIN m |->
        IF e \div n > e % n THEN m[(e % n) * n + e \div n] ELSE m[e]]

\* for (i ...) for (j = 0; j < i; j++) m[j*n+i] = m[i*n+j];
Mirror(m, n) ==
    [e \in DOMAIN m |->
        IF e \div n < e % n THEN m[(e % n) * n + e \div n] ELSE m[e]]

\* a reduction that stores the private accumulator instead of adding it
AddIntoStores(tot, part) == part

\* for (i = 0; i < n; i++) tot[i] += part[i];
AddInto(tot, part) == [e \in DOMAIN tot |-> tot[e] + part[e]]

\* the beta blocks: ib = 0, bufbase, 2*bufbase, ... < nb
BlockStarts(bufbase, nb) == {ib \in 0 .. nb - 1 : ib % bufbase = 0}

\* one worker's loops over ib and strk from (ib, strk) on, run to their end
RECURSIVE BlockLoop(_, _, _, _, _, _, _, _)
BlockLoop(A, cc, bufbase, cla, clb, ib, strk, acc) ==
    IF ib >= A.nb THEN acc
    ELSE IF strk >= A.na
         THEN BlockLoop(A, cc, bufbase, cla, clb, ib + bufbase, 0, acc)
         ELSE BlockLoop(A, cc, bufbase, cla, clb, ib, strk + 1,
                  dm12kernel(A.kern, cc, acc.rdm1, acc.rdm2, A.bra, A.ket,
                             MIN(bufbase, A.nb - ib), strk, ib,
                             A.norb, A.na, A.nb, A.nlinka, A.nlinkb, cla, clb))

\* FCIrdm12_drv run by one thread: what it leaves in rdm1 and rdm2.  B is
\* the build: B.BUFBASE the block size, B.order the order of the operands
\* of +, B.thr the threshold.
FCIrdm12_drv(B, A, rdm1_in, rdm2_in) ==
    LET nnorb == A.norb * A.norb
        bufbase == MIN(B.BUFBASE, A.nb)
        cla == compress_link(B, A.link_indexa, A.norb, A.na, A.nlinka)
        clb == compress_link(B, A.link_indexb, A.norb, A.nb, A.nlinkb)
        zero == [rdm1 |-> Zeros(nnorb), rdm2 |-> Zeros(nnorb * nnorb),
                 pruned |-> FALSE, csum |-> <<>>]
        p == BlockLoop(A, B, bufbase, cla, clb, 0, 0, zero)
        r1 == AddInto(memset(rdm1_in, nnorb), p.rdm1)
        r2 == AddInto(memset(rdm2_in, nnorb * nnorb), p.rdm2)
    IN  IF A.symm # 0
        THEN [rdm1 |-> Mirror(r1, A.norb), rdm2 |-> Mirror(r2, nnorb)]
        ELSE [rdm1 |-> r1, rdm2 |-> r2]

\* the wrappers: the arguments each hands to FCIrdm12_drv
FCImake_rdm12_ms0(bra, ket, norb, na, nlink, link_index) ==
    [entry |-> "FCIrdm12_drv", kern |-> "FCIrdm12kern_ms0", bra |-> ket, ket |-> ket, norb |-> norb,
     na |-> na, nb |-> na, nlinka |-> nlink, nlinkb |-> nlink,
     link_indexa |-> link_index, link_indexb |-> link_index, symm |-> 1]

FCImake_rdm12_spin0(bra, ket, norb, na, nlink, link_index) ==
    [entry |-> "FCIrdm12_drv", kern |-> "FCIrdm12kern_spin0", bra |-> ket, ket |-> ket, norb |-> norb,
     na |-> na, nb |-> na, nlinka |-> nlink, nlinkb |-> nlink,
     link_indexa |-> link_index, link_indexb |-> link_index, symm |-> 1]

FCItrans_rdm12_ms0(bra, ket, norb, na, nlink, link_index) ==
    [entry |-> "FCIrdm12_drv", kern |-> "FCItdm12kern_ms0", bra |-> bra, ket |-> ket, norb |-> norb,
     na |-> na, nb |-> na, nlinka |-> nlink, nlinkb |-> nlink,
     link_indexa |-> link_index, link_indexb |-> link_index, symm |-> 0]

(* --------------------------- direct 1-RDM ----------------------------- *)
\* rdm1[a*norb+i] += sign * <bra row str1 | ket row str0>
FCItrans_rdm1a(cc, rdm1_in, bra, ket, norb, na, nb, nlinka, nlinkb, link_indexa, link_indexb) ==
    LET clink == compress_link(cc, link_indexa, norb, na, nlinka)
        tab(str0, j) == clink[str0 * nlinka + j]
        dot(str0, str1) ==
            SumTo([k \in 0 .. nb - 1 |-> bra[str1 * nb + k] * ket[str0 * nb + k]], nb)
        term(str0, j, e) ==
            IF e = EXTRACT_A(tab(str0, j)) * norb + EXTRACT_I(tab(str0, j))
            THEN EXTRACT_SIGN(tab(str0, j)) * dot(str0, EXTRACT_ADDR(tab(str0, j)))
            ELSE 0
        z == memset(rdm1_in, norb * norb)
    IN  [e \in DOMAIN z |->
            z[e] + SumTo([str0 \in 0 .. na - 1 |->
                       SumTo([j \in 0 .. nlinka - 1 |-> term(str0, j, e)], nlinka)],
                         na)]

\* rdm1[a*norb+i] += sign * pbra[str1] * pket[k], the records of beta string k
FCItrans_rdm1b(cc, rdm1_in, bra, ket, norb, na, nb, nlinka, nlinkb, link_indexa, link_indexb) ==
    LET clink == compress_link(cc, link_indexb, norb, nb, nlinkb)
        tab(k, j) == clink[k * nlinkb + j]
        term(str0, k, j, e) ==
            IF e = EXTRACT_A(tab(k, j)) * norb + EXTRACT_I(tab(k, j))
            THEN EXTRACT_SIGN(tab(k, j))
                     * bra[str0 * nb + EXTRACT_ADDR(tab(k, j))] * ket[str0 * nb + k]
            ELSE 0
        z == memset(rdm1_in, norb * norb)
    IN  [e \in DOMAIN z |->
            z[e] + SumTo([str0 \in 0 .. na - 1 |->
                       SumTo([k \in 0 .. nb - 1 |->
                           SumTo([j \in 0 .. nlinkb - 1 |-> term(str0, k, j, e)],
                                 nlinkb)], nb)], na)]

\* only the records with a >= i are accumulated, then the other triangle is
\* copied from them; cibra is not read
FCImake_rdm1a(cc, rdm1_in, cibra, ciket, norb, na, nb, nlinka, nlinkb, link_indexa, link_indexb) ==
    LET ci0 == ciket
        clink == compress_link(cc, link_indexa, norb, na, nlinka)
        tab(str0, j) == clink[str0 * nlinka + j]
        dot(str0, str1) ==
            SumTo([k \in 0 .. nb - 1 |-> ci0[str0 * nb + k] * ci0[str1 * nb + k]], nb)
        term(str0, j, e) ==
            IF EXTRACT_A(tab(str0, j)) >= EXTRACT_I(tab(str0, j))
               /\ e = EXTRACT_A(tab(str0, j)) * norb + EXTRACT_I(tab(str0, j))
            THEN IF EXTRACT_SIGN(tab(str0, j)) > 0
                 THEN dot(str0, EXTRACT_ADDR(tab(str0, j)))
                 ELSE -dot(str0, EXTRACT_ADDR(tab(str0, j)))
            ELSE 0
        z == memset(rdm1_in, norb * norb)
        acc == [e \in DOMAIN z |->
                   z[e] + SumTo([str0 \in 0 .. na - 1 |->
                              SumTo([j \in 0 .. nlinka - 1 |-> term(str0, j, e)],
                                    nlinka)], na)]
    IN  Mirror(acc, norb)

FCImake_rdm1b(cc, rdm1_in, cibra, ciket, norb, na, nb, nlinka, nlinkb, link_indexa, link_indexb) ==
    LET ci0 == ciket
        clink == compress_link(cc, link_indexb, norb, nb, nlinkb)
        tab(k, j) == clink[k * nlinkb + j]
        term(str0, k, j, e) ==
            IF EXTRACT_A(tab(k, j)) >= EXTRACT_I(tab(k, j))
               /\ e = EXTRACT_A(tab(k, j)) * norb + EXTRACT_I(tab(k, j))
            THEN IF EXTRACT_SIGN(tab(k, j)) > 0
                 THEN ci0[str0 * nb + EXTRACT_ADDR(tab(k, j))] * ci0[str0 * nb + k]
                 ELSE -(ci0[str0 * nb + EXTRACT_ADDR(tab(k, j))] * ci0[str0 * nb + k])
            ELSE 0
        z == memset(rdm1_in, norb * norb)
        acc == [e \in DOMAIN z |->
                   z[e] + SumTo([str0 \in 0 .. na - 1 |->
                              SumTo([k \in 0 .. nb - 1 |->
                                  SumTo([j \in 0 .. nlinkb - 1 |-> term(str0, k, j, e)],
                                        nlinkb)], nb)], na)]
    IN  Mirror(acc, norb)

DirectEntries == {"FCItrans_rdm1a", "FCItrans_rdm1b", "FCImake_rdm1a", "FCImake_rdm1b"}

Direct(entry, cc, rdm1_in, bra, ket, norb, na, nb, nlinka, nlinkb, link_indexa, link_indexb) ==
    CASE entry = "FCItrans_rdm1a" ->
           FCItrans_rdm1a(cc, rdm1_in, bra, ket, norb, na, nb, nlinka, nlinkb,
                          link_indexa, link_indexb)
      [] entry = "FCItrans_rdm1b" ->
           FCItrans_rdm1b(cc, rdm1_in, bra, ket, norb, na, nb, nlinka, nlinkb,
                          link_indexa, link_indexb)
      [] entry = "FCImake_rdm1a" ->
           FCImake_rdm1a(cc, rdm1_in, bra, ket, norb, na, nb, nlinka, nlinkb,
                         link_indexa, link_indexb)
      [] entry = "FCImake_rdm1b" ->
           FCImake_rdm1b(cc, rdm1_in, bra, ket, norb, na, nb, nlinka, nlinkb,
                         link_indexa, link_indexb)

(* --------------------------- the inputs ------------------------------- *)
\* the values of a coefficient that is not 0
CoefVals == {v \in -1 .. MaxCoef : v # 0}

\* the coefficient arrays of length n with at most k entries that are not 0
Sparse(n, k) ==
    UNION {{[q \in 0 .. n - 1 |-> IF q \in P THEN f[q] ELSE 0] : f \in [P -> CoefVals]} :
              P \in {Q \in SUBSET (0 .. n - 1) : Cardinality(Q) <= k}}

\* a channel: the strings of nelec electrons in norb orbitals and their links
Channel(norb, nelec) ==
    [n |-> NStr(norb, nelec), nlink |-> NLink(norb, nelec),
     link_index |-> LinkIndex(norb, nelec)]

(* ------------------------------ the state ----------------------------- *)
VARIABLES
    arg,      \* the arguments of the call: entry, kern, bra, ket, norb, na, ...
    build,    \* BUFBASE, the order of the operands of +, CSUMTHR
    nthreads, \* the size of the team of the parallel region
    rdm1,     \* the caller's output arrays
    rdm2,
    clinka,   \* the compacted link tables
    clinkb,
    pc,       \* where the calling thread is
    wpc,      \* where each worker is
    wib,      \* its private ib, strk and the end of its chunk of strk
    wstrk,
    wend,
    pdm1,     \* its private accumulators
    pdm2,
    disp,     \* per beta block, the next strk the dynamic schedule hands out
    lock,     \* the worker inside the critical section, or 0
    calls,    \* the workers that called the kernel with each (strk, ib)
    last,     \* the kernel call made last
    ncall,    \* calls made on these output arrays so far
    fault     \* the buffer that malloc returned NULL for and that was then
              \* written through, or "none"

vars == <<arg, build, nthreads, rdm1, rdm2, clinka, clinkb, pc, wpc, wib,
          wstrk, wend, pdm1, pdm2, disp, lock, calls, last, ncall, fault>>

given == <<arg, build, nthreads, ncall>>
outs == <<rdm1, rdm2>>
links == <<clinka, clinkb>>
loopv == <<wib, wstrk, wend>>
priv == <<pdm1, pdm2>>

Workers == 1 .. nthreads
nnorb == arg.norb * arg.norb
bufbase == MIN(build.BUFBASE, arg.nb)
NoCall == [w |-> 0, strk |-> 0, ib |-> 0, blen |-> 0, pruned |-> FALSE,
           csum |-> <<>>]

\* the state a caller hands over: the outputs hold g everywhere
Start(A, B, nt, g) ==
    /\ arg = A
    /\ build = B
    /\ nthreads = nt
    /\ rdm1 = [e \in 0 .. A.norb * A.norb - 1 |-> g]
    /\ rdm2 = [e \in 0 .. A.norb * A.norb * A.norb * A.norb - 1 |-> g]
    /\ clinka = <<>>
    /\ clinkb = <<>>
    /\ pc = "call"
    /\ wpc = [w \in 1 .. nt |-> "idle"]
    /\ wib = [w \in 1 .. nt |-> 0]
    /\ wstrk = [w \in 1 .. nt |-> 0]
    /\ wend = [w \in 1 .. nt |-> 0]
    /\ pdm1 = [w \in 1 .. nt |-> <<>>]
    /\ pdm2 = [w \in 1 .. nt |-> <<>>]
    /\ disp = <<>>
    /\ lock = 0
    /\ calls = <<>>
    /\ last = NoCall
    /\ ncall = 1
    /\ fault = "none"

\* FCIrdm12_drv up to the parallel region: the outputs are zeroed and both
\* link tables compacted; the team starts
Enter ==
    /\ rdm1' = memset(rdm1, nnorb)
    /\ rdm2' = memset(rdm2, nnorb * nnorb)
    /\ clinka' = compress_link(build, arg.link_indexa, arg.norb, arg.na, arg.nlinka)
    /\ clinkb' = compress_link(build, arg.link_indexb, arg.norb, arg.nb, arg.nlinkb)
    /\ pc' = "parallel"
    /\ wpc' = [w \in Workers |-> "start"]
    /\ disp' = [ib \in BlockStarts(bufbase, arg.nb) |-> 0]
    /\ calls' = [c \in (0 .. arg.na - 1) \X BlockStarts(bufbase, arg.nb) |-> <<>>]
    /\ last' = NoCall
    /\ UNCHANGED <<given, loopv, priv, lock>>

DrvEnter ==
    /\ pc = "call"
    /\ arg.entry \notin DirectEntries
    /\ Enter
    /\ UNCHANGED fault

\* pdm1, pdm2 = malloc, memset; ib = 0
Begin(w) ==
    /\ pdm1' = [pdm1 EXCEPT ![w] = memset(malloc(nnorb), nnorb)]
    /\ pdm2' = [pdm2 EXCEPT ![w] = memset(malloc(nnorb * nnorb), nnorb * nnorb)]
    /\ wib' = [wib EXCEPT ![w] = 0]
    /\ wpc' = [wpc EXCEPT ![w] = "for"]
    /\ UNCHANGED <<given, outs, links, pc, wstrk, wend, disp, lock, calls, last>>

WorkerStart(w) ==
    /\ pc = "parallel"
    /\ wpc[w] = "start"
    /\ Begin(w)
    /\ UNCHANGED fault

\* schedule(dynamic, 2): a chunk beginning at lo ends before ChunkEnd
ChunkEnd(lo, n) == MIN(lo + 2, n)

\* omp for schedule(dynamic, 2) nowait: the worker takes the next two strk of
\* its block, or, none being left, goes on to the next block without waiting;
\* after the last block it goes to the critical section
WorkerFetch(w) ==
    /\ pc = "parallel"
    /\ wpc[w] = "for"
    /\ IF wib[w] >= arg.nb
       THEN /\ wpc' = [wpc EXCEPT ![w] = "critical"]
            /\ UNCHANGED <<loopv, disp>>
       ELSE IF disp[wib[w]] >= arg.na
            THEN /\ wib' = [wib EXCEPT ![w] = wib[w] + bufbase]
                 /\ UNCHANGED <<wpc, wstrk, wend, disp>>
            ELSE /\ wstrk' = [wstrk EXCEPT ![w] = disp[wib[w]]]
                 /\ wend' = [wend EXCEPT ![w] = ChunkEnd(disp[wib[w]], arg.na)]
                 /\ disp' = [disp EXCEPT ![wib[w]] = ChunkEnd(disp[wib[w]], arg.na)]
                 /\ wpc' = [wpc EXCEPT ![w] = "kernel"]
                 /\ UNCHANGED wib
    /\ UNCHANGED <<given, outs, links, pc, priv, lock, calls, last, fault>>

\* (*dm12kernel)(pdm1, pdm2, bra, ket, blen, strk, ib, ...)
Invoke(w) ==
    /\ LET blen == MIN(bufbase, arg.nb - wib[w])
           R == dm12kernel(arg.kern, build, pdm1[w], pdm2[w], arg.bra, arg.ket,
                           blen, wstrk[w], wib[w], arg.norb, arg.na, arg.nb,
                           arg.nlinka, arg.nlinkb, clinka, clinkb)
       IN  /\ pdm1' = [pdm1 EXCEPT ![w] = R.rdm1]
           /\ pdm2' = [pdm2 EXCEPT ![w] = R.rdm2]
           /\ last' = [w |-> w, strk |-> wstrk[w], ib |-> wib[w], blen |-> blen,
                       pruned |-> R.pruned, csum |-> R.csum]
    /\ calls' = [calls EXCEPT ![<<wstrk[w], wib[w]>>] = Append(@, w)]
    /\ wstrk' = [wstrk EXCEPT ![w] = wstrk[w] + 1]
    /\ wpc' = [wpc EXCEPT ![w] = IF wstrk[w] + 1 >= wend[w] THEN "for" ELSE "kernel"]
    /\ UNCHANGED <<given, outs, links, pc, wib, wend, disp, lock>>

WorkerKernel(w) ==
    /\ pc = "parallel"
    /\ wpc[w] = "kernel"
    /\ Invoke(w)
    /\ UNCHANGED fault

\* the reduction entered without the critical section
WorkerCriticalUnguarded(w) ==
    /\ pc = "parallel"
    /\ wpc[w] = "critical"
    /\ lock' = w
    /\ rdm1' = AddInto(rdm1, pdm1[w])
    /\ wpc' = [wpc EXCEPT ![w] = "reduce"]
    /\ UNCHANGED <<given, rdm2, links, pc, loopv, priv, disp, calls, last, fault>>

\* omp critical, entered: rdm1[i] += pdm1[i]
WorkerCritical(w) ==
    /\ pc = "parallel"
    /\ wpc[w] = "critical"
    /\ lock = 0
    /\ lock' = w
    /\ rdm1' = AddInto(rdm1, pdm1[w])
    /\ wpc' = [wpc EXCEPT ![w] = "reduce"]
    /\ UNCHANGED <<given, rdm2, links, pc, loopv, priv, disp, calls, last, fault>>

\* rdm2[i] += pdm2[i]; the critical section is left and pdm1, pdm2 freed
WorkerReduce(w) ==
    /\ pc = "parallel"
    /\ wpc[w] = "reduce"
    /\ lock = w
    /\ rdm2' = AddInto(rdm2, pdm2[w])
    /\ lock' = 0
    /\ pdm1' = [pdm1 EXCEPT ![w] = <<>>]
    /\ pdm2' = [pdm2 EXCEPT ![w] = <<>>]
    /\ wpc' = [wpc EXCEPT ![w] = "done"]
    /\ UNCHANGED <<given, rdm1, links, pc, loopv, disp, calls, last, fault>>

\* the end of the parallel region: the link tables are freed and, if symm,
\* both outputs mirrored
DrvLeave ==
    /\ pc = "parallel"
    /\ \A w \in Workers : wpc[w] = "done"
    /\ clinka' = <<>>
    /\ clinkb' = <<>>
    /\ rdm1' = IF arg.symm # 0 THEN Mirror(rdm1, arg.norb) ELSE rdm1
    /\ rdm2' = IF arg.symm # 0 THEN Mirror(rdm2, nnorb) ELSE rdm2
    /\ pc' = "returned"
    /\ UNCHANGED <<given, wpc, loopv, priv, disp, lock, calls, last, fault>>

\* FCItrans_rdm1a, FCItrans_rdm1b, FCImake_rdm1a, FCImake_rdm1b
DirectCall ==
    /\ pc = "call"
    /\ arg.entry \in DirectEntries
    /\ rdm1' = Direct(arg.entry, build, rdm1, arg.bra, arg.ket, arg.norb, arg.na, arg.nb,
                      arg.nlinka, arg.nlinkb, arg.link_indexa, arg.link_indexb)
    /\ pc' = "returned"
    /\ UNCHANGED <<given, rdm2, links, wpc, loopv, priv, disp, lock, calls, last,
                   fault>>

\* the caller calls again with the same arguments and the arrays as they are
CallAgain ==
    /\ pc = "returned"
    /\ ncall < MaxCalls
    /\ ncall' = ncall + 1
    /\ pc' = "call"
    /\ wpc' = [w \in Workers |-> "idle"]
    /\ UNCHANGED <<arg, build, nthreads, outs, links, loopv, priv, disp, lock,
                   calls, last, fault>>

(* malloc returns NULL.  No result of malloc is tested, so the next       *)
(* statement writes through the null pointer: the behaviour is undefined. *)
(* Either the write traps and the process is killed, or it does not and   *)
(* the call goes on as it would have with the buffer.                     *)
Killed ==
    /\ pc' = "killed"
    /\ UNCHANGED <<given, links, wpc, loopv, priv, disp, lock, calls, last>>

\* clinka or clinkb is NULL in compress_link
DrvEnterNoMem ==
    /\ pc = "call"
    /\ arg.entry \notin DirectEntries
    /\ fault = "none"
    /\ fault' \in {"clinka", "clinkb"}
    /\ \/ Enter
       \/ Killed /\ rdm1' = memset(rdm1, nnorb)
                 /\ rdm2' = memset(rdm2, nnorb * nnorb)

\* pdm1 or pdm2 is NULL in memset
WorkerStartNoMem(w) ==
    /\ pc = "parallel"
    /\ wpc[w] = "start"
    /\ fault = "none"
    /\ fault' \in {"pdm1", "pdm2"}
    /\ \/ Begin(w)
       \/ Killed /\ UNCHANGED outs

\* the T1 buffer of the kernel is NULL in the contractor
WorkerKernelNoMem(w) ==
    /\ pc = "parallel"
    /\ wpc[w] = "kernel"
    /\ ~(arg.kern = "FCIrdm12kern_spin0" /\ wstrk[w] < wib[w])
    /\ fault = "none"
    /\ fault' = "buf"
    /\ \/ Invoke(w)
       \/ Killed /\ UNCHANGED outs

NextDrv ==
    \/ DrvEnter
    \/ \E w \in Workers : WorkerStart(w)
    \/ \E w \in Workers : WorkerFetch(w)
    \/ \E w \in Workers : WorkerKernel(w)
    \/ \E w \in Workers : WorkerCritical(w)
    \/ \E w \in Workers : WorkerReduce(w)
    \/ DrvLeave

NextNoMem ==
    \/ DrvEnterNoMem
    \/ \E w \in Workers : WorkerStartNoMem(w)
    \/ \E w \in Workers : WorkerKernelNoMem(w)

(* --------------------------- the calls made --------------------------- *)
GroundKernels == {"FCIrdm12kern_ms0", "FCIrdm12kern_spin0", "FCIrdm12kern_a",
                  "FCIrdm12kern_b"}

\* the kernels that add the results of the two contractors in one expression;
\* they are handed one link table and na = nb
SumKernels == {"FCIrdm12kern_ms0", "FCIrdm12kern_spin0", "FCItdm12kern_ms0"}

\* norb orbitals, neleca alpha electrons, nelecb beta electrons
Systems ==
    {s \in (2 .. MaxNorb) \X (1 .. 2) \X (1 .. 2) : s[1] > 2 => s[2] = 2}

KernelsOf(s) == IF s[2] = s[3] THEN Kernels ELSE Kernels \ SumKernels

\* the builds of the calls checked: each block size, both orders of the
\* operands of + where two contractors are added, plain char signed (the
\* builds whose plain char is unsigned are those of InitLink)
Builds(kern) ==
    [BUFBASE : 1 .. MaxBufBase,
     order : IF kern \in SumKernels THEN {"LR", "RL"} ELSE {"LR"},
     thr : {CSUMTHR}, char : {"signed"}]

\* the coefficient arrays tried: few entries that are not 0, at most one
\* if the array is long
Kets1(n) ==
    IF n <= 4 THEN Sparse(n, 1)
    ELSE {c \in Sparse(n, 1) : \A q \in 0 .. n - 1 : c[q] \in {0, 1, MaxCoef}}
KetsN(n) == Sparse(n, IF n <= 4 THEN MaxNonZero ELSE 1)

\* one array with no entry 0
Ramp(n) == {[q \in 0 .. n - 1 |-> (q % MaxCoef) + 1]}

KetsOf(kets, n) ==
    CASE kets = "Kets1" -> Kets1(n)
      [] kets = "KetsN" -> KetsN(n)
      [] kets = "Ramp" -> Ramp(n)

\* the ground-state kernels do not read bra; the wrappers hand them ket
Bras(mode, kern, ket, n) ==
    IF mode = "same" \/ kern \in GroundKernels THEN {ket}
    ELSE IF n <= 4 THEN Sparse(n, 1)
    ELSE {ket} \cup {[q \in 0 .. n - 1 |-> IF q = p THEN 1 ELSE 0] : p \in {0, n - 1}}

Args(entry, kern, symm, norb, cha, chb, bra, ket) ==
    [entry |-> entry, kern |-> kern, bra |-> bra, ket |-> ket,
     norb |-> norb, na |-> cha.n, nb |-> chb.n, nlinka |-> cha.nlink,
     nlinkb |-> chb.nlink, link_indexa |-> cha.link_index,
     link_indexb |-> chb.link_index, symm |-> symm]

\* calls of FCIrdm12_drv
InitDrv(syss, kerns, symms, teams, fills, kets, mode) ==
    \E s \in syss :
    LET cha == Channel(s[1], s[2])
        chb == Channel(s[1], s[3])
        n == cha.n * chb.n
    IN  \E kern \in kerns \cap KernelsOf(s), symm \in symms, nt \in teams,
           g \in fills :
        \E ket \in KetsOf(kets, n) :
        \E bra \in Bras(mode, kern, ket, n), B \in Builds(kern) :
            Start(Args("FCIrdm12_drv", kern, symm, s[1], cha, chb, bra, ket),
                  B, nt, g)

\* calls of the direct routines
InitDirect(syss, fills, kets) ==
    \E s \in syss :
    LET cha == Channel(s[1], s[2])
        chb == Channel(s[1], s[3])
        n == cha.n * chb.n
    IN  \E entry \in DirectEntries, g \in fills :
        \E ket \in KetsOf(kets, n) :
        \E bra \in {ket} \cup Sparse(n, 1) :
            Start(Args(entry, "none", 0, s[1], cha, chb, bra, ket),
                  [BUFBASE |-> 1, order |-> "LR", thr |-> CSUMTHR, char |-> "signed"], 1, g)

(* ------------------------- specifications ----------------------------- *)
\* every kernel, every tiling, one worker
Init == InitDrv(Systems, Kernels, {0}, {1}, {0}, "KetsN", "same")
Next == NextDrv
Spec == Init /\ [][Next]_vars

\* teams of one to MaxThreads workers
InitPar ==
    \/ InitDrv({s \in Systems : s[2] = s[3] /\ s[1] = 2}, Kernels,
               {0}, 1 .. MaxThreads, {0}, "Kets1", "same")
    \/ InitDrv({s \in Systems : s[2] = s[3] /\ s[1] > 2},
               {"FCIrdm12kern_a"}, {0}, 1 .. MaxThreads, {0}, "Ramp", "same")
SpecPar == InitPar /\ [][NextDrv]_vars

\* bra and ket differ
InitPrune ==
    InitDrv({s \in Systems : s[1] = 2 \/ s[2] = s[3]}, Kernels, {0}, {1}, {0},
            "Kets1", "any")
SpecPrune == InitPrune /\ [][NextDrv]_vars

\* symmetrised calls (symm = 1, as FCImake_rdm12_ms0 and FCImake_rdm12_spin0
\* make them) and the direct routines
InitSymm ==
    \/ InitDrv({s \in Systems : s[1] = 2}, Kernels, {1}, {1}, {0}, "Kets1", "any")
    \/ InitDrv(Systems, GroundKernels, {1}, {1}, {0}, "KetsN", "same")
    \/ InitDirect({s \in Systems : s[1] = 2}, {0}, "Kets1")
NextSymm == NextDrv \/ DirectCall
SpecSymm == InitSymm /\ [][NextSymm]_vars

\* calls repeated on output arrays that hold something
InitPure ==
    \/ InitDrv({s \in Systems : s[1] = 2}, Kernels, {0, 1}, {1}, {0, 7}, "Kets1",
               "same")
    \/ InitDirect({s \in Systems : s[1] = 2}, {0, 7}, "Kets1")
NextPure == NextDrv \/ DirectCall \/ CallAgain
SpecPure == InitPure /\ [][NextPure]_vars

\* calls during which malloc may return NULL
InitAlloc ==
    InitDrv({s \in Systems : s[1] = 2 /\ s[2] = s[3]}, Kernels, {0},
            1 .. MaxThreads, {0}, "Ramp", "same")
NextAlloc == NextDrv \/ NextNoMem
SpecAlloc == InitAlloc /\ [][NextAlloc]_vars

\* link tables of any content, for builds of either plain char: the values
\* a caller may put into a slot, in range for the field it goes to or not
RawQuads ==
    {0, 3, CHAR_RANGE - 1, CHAR_RANGE} \X {0, CHAR_RANGE - 1, -1}
        \X {0, HALF_RANGE + 1} \X {1, -1, 200}

RawTables(nrec) ==
    {[e \in 0 .. 4 * nrec - 1 |-> q[(e \div 4) + 1][(e % 4) + 1]] :
        q \in [1 .. nrec -> RawQuads]}

InitLink ==
    \E shape \in {<<1, 2>>, <<2, 1>>}, c \in {"signed", "unsigned"} :
    \E t \in RawTables(shape[1] * shape[2]) :
        Start([entry |-> "FCIrdm12_drv", kern |-> "FCIrdm12kern_a",
               bra |-> Zeros(shape[1] * shape[1]),
               ket |-> Zeros(shape[1] * shape[1]),
               norb |-> 2, na |-> shape[1], nb |-> shape[1],
               nlinka |-> shape[2], nlinkb |-> shape[2],
               link_indexa |-> t, link_indexb |-> t, symm |-> 0],
              [BUFBASE |-> 1, order |-> "LR", thr |-> CSUMTHR, char |-> c],
              1, 0)
NextLink == DrvEnter
SpecLink == InitLink /\ [][NextLink]_vars

\* calls of the direct routines on builds of either plain char, with
\* coefficient arrays that make the records of sign -1 count
InitChar ==
    \E s \in Systems :
    LET cha == Channel(s[1], s[2])
        chb == Channel(s[1], s[3])
        n == cha.n * chb.n
    IN  \E entry \in DirectEntries, char \in {"signed", "unsigned"} :
        \E ket \in Ramp(n) \cup Kets1(n) :
        \E bra \in {ket} \cup Kets1(n) :
            Start(Args(entry, "none", 0, s[1], cha, chb, bra, ket),
                  [BUFBASE |-> 1, order |-> "LR", thr |-> CSUMTHR, char |-> char], 1, 0)
NextChar == DirectCall
SpecChar == InitChar /\ [][NextChar]_vars

(* ------------------------------ claims -------------------------------- *)
ZeroOut(A) == [rdm1 |-> Zeros(A.norb * A.norb),
               rdm2 |-> Zeros(A.norb * A.norb * A.norb * A.norb)]

\* what one thread running the whole call with build B and arguments A returns
Run(B, A) == FCIrdm12_drv(B, A, ZeroOut(A).rdm1, ZeroOut(A).rdm2)

Returned(R) == pc = "returned" /\ rdm1 = R.rdm1 /\ rdm2 = R.rdm2

(* C1: the outputs of FCIrdm12_drv do not depend on the size of the beta  *)
(* blocks: whatever BUFBASE is, the call returns the rdm1 and rdm2 of the *)
(* run that takes all nb beta strings as one block.                       *)
C1_TilingInvariant ==
    pc = "returned" => Returned(Run([build EXCEPT !.BUFBASE = arg.nb], arg))

(* C3: FCItrans_rdm12_ms0 called with bra = ket returns, entry for entry, *)
(* the rdm1 and rdm2 that FCImake_rdm12_ms0 returns for the same          *)
(* coefficients.                                                          *)
C3_TransEqualsGround ==
    /\ pc = "returned"
    /\ arg.bra = arg.ket
    /\ arg = FCItrans_rdm12_ms0(arg.bra, arg.ket, arg.norb, arg.na, arg.nlinka,
                                arg.link_indexa)
    => Returned(Run(build, FCImake_rdm12_ms0(arg.bra, arg.ket, arg.norb, arg.na,
                                             arg.nlinka, arg.link_indexa)))

(* C2: whatever the number of workers and the interleaving of their       *)
(* steps, no (strk, ib) is handed to the kernel twice, and when the call  *)
(* returns each has been handed to it once, by one worker, and rdm1 and   *)
(* rdm2 are those of the run by one thread.                               *)
C2_ScheduleInvariant ==
    /\ \A c \in DOMAIN calls : Len(calls[c]) <= 1
    /\ pc = "returned" =>
          /\ \A c \in DOMAIN calls : Len(calls[c]) = 1
          /\ Returned(Run(build, arg))

\* two workers have each made kernel calls that left something in the outputs
C2_Witness ==
    /\ pc = "returned"
    /\ \E c, d \in DOMAIN calls : calls[c] = <<1>> /\ calls[d] = <<2>>
    /\ rdm1 # ZeroOut(arg).rdm1
    /\ rdm2 # ZeroOut(arg).rdm2

\* what the kernel call made last would have added had it not been pruned
Skipped ==
    dm12kernel(arg.kern, [build EXCEPT !.thr = -1], ZeroOut(arg).rdm1,
               ZeroOut(arg).rdm2, arg.bra, arg.ket, last.blen, last.strk, last.ib,
               arg.norb, arg.na, arg.nb, arg.nlinka, arg.nlinkb,
               compress_link(build, arg.link_indexa, arg.norb, arg.na, arg.nlinka),
               compress_link(build, arg.link_indexb, arg.norb, arg.nb, arg.nlinkb))

(* C4: a kernel returns without accumulating only if a sum of squares it *)
(* tested is at most CSUMTHR, and then it leaves out only what is         *)
(* negligible: every entry d of what it would have added to rdm1 and rdm2 *)
(* has d*d <= 64 * N1 * N2, N1 and N2 the sums of squares of its T1       *)
(* blocks (of bra and of ket; one and the same for a ground-state         *)
(* kernel).  So with a tested sum of exactly 0 what is left out is        *)
(* exactly 0 and the output is the one without pruning.                   *)
C4_PruningNegligible ==
    last.pruned =>
        LET S == Skipped
            N1 == last.csum[1]
            N2 == last.csum[Len(last.csum)]
        IN  /\ MIN(N1, N2) <= CSUMTHR
            /\ \A e \in DOMAIN S.rdm1 : S.rdm1[e] * S.rdm1[e] <= 64 * N1 * N2
            /\ \A e \in DOMAIN S.rdm2 : S.rdm2[e] * S.rdm2[e] <= 64 * N1 * N2

\* a transition kernel left out something that is not 0
C4_Witness ==
    /\ last.pruned
    /\ arg.kern \notin GroundKernels
    /\ LET S == Skipped
       IN  /\ \E e \in DOMAIN S.rdm1 : S.rdm1[e] # 0
           /\ \E e \in DOMAIN S.rdm2 : S.rdm2[e] # 0

\* the call as it would have returned had symm been 0
Unmirrored == Run(build, [arg EXCEPT !.symm = 0])

(* C5: when FCIrdm12_drv returns from a call with symm != 0, rdm1 is      *)
(* symmetric as a norb x norb matrix and rdm2 as an nnorb x nnorb one,    *)
(* and the entries [i*n + j] with j <= i are those the kernels and the    *)
(* reduction left there, the others their copies.                         *)
C5_Symmetric ==
    (pc = "returned" /\ arg.entry = "FCIrdm12_drv" /\ arg.symm # 0) =>
        LET U == Unmirrored
            n == arg.norb
            nn == nnorb
        IN  /\ \A i, j \in 0 .. n - 1 :
                  /\ rdm1[i * n + j] = rdm1[j * n + i]
                  /\ j <= i => rdm1[i * n + j] = U.rdm1[i * n + j]
            /\ \A p, q \in 0 .. nn - 1 :
                  /\ rdm2[p * nn + q] = rdm2[q * nn + p]
                  /\ q <= p => rdm2[p * nn + q] = U.rdm2[p * nn + q]

\* the mirroring has changed an entry of rdm1 and an entry of rdm2
C5_Witness ==
    /\ pc = "returned" /\ arg.entry = "FCIrdm12_drv" /\ arg.symm # 0
    /\ LET U == Unmirrored
       IN  /\ \E e \in DOMAIN rdm1 : rdm1[e] # U.rdm1[e]
           /\ \E e \in DOMAIN rdm2 : rdm2[e] # U.rdm2[e]

\* the electrons of a channel: the records of string 0 that lead back to it
\* with a = i
NElec(link_index, nlink) ==
    Cardinality({j \in 0 .. nlink - 1 :
                    /\ link_index[j * 4 + 0] = link_index[j * 4 + 1]
                    /\ link_index[j * 4 + 2] = 0})

Trace(m, n) == SumTo([p \in 0 .. n - 1 |-> m[p * n + p]], n)
Norm2(c, n) == SumTo([q \in 0 .. n - 1 |-> c[q] * c[q]], n)

(* C6: the trace of the rdm1 that FCImake_rdm1a or the driver with        *)
(* FCIrdm12kern_a returns is the number of alpha electrons times the sum  *)
(* of the squares of the coefficients, likewise for beta with             *)
(* FCImake_rdm1b and FCIrdm12kern_b, and with FCIrdm12kern_ms0 on one     *)
(* alpha and one beta electron it is twice that sum.                      *)
C6_TraceIsNelec ==
    pc = "returned" =>
        LET tr == Trace(rdm1, arg.norb)
            s2 == Norm2(arg.ket, arg.na * arg.nb)
            neleca == NElec(arg.link_indexa, arg.nlinka)
            nelecb == NElec(arg.link_indexb, arg.nlinkb)
        IN  /\ (arg.entry = "FCImake_rdm1a" \/ arg.kern = "FCIrdm12kern_a")
                  => tr = neleca * s2
            /\ (arg.entry = "FCImake_rdm1b" \/ arg.kern = "FCIrdm12kern_b")
                  => tr = nelecb * s2
            /\ (arg.kern = "FCIrdm12kern_ms0" /\ neleca = 1 /\ nelecb = 1)
                  => tr = 2 * s2

\* the electrons the T1 of a ground-state kernel covers
Covered(kern) ==
    CASE kern = "FCIrdm12kern_ms0" ->
           NElec(arg.link_indexa, arg.nlinka) + NElec(arg.link_indexb, arg.nlinkb)
      [] kern = "FCIrdm12kern_a" -> NElec(arg.link_indexa, arg.nlinka)
      [] kern = "FCIrdm12kern_b" -> NElec(arg.link_indexb, arg.nlinkb)

(* C7: for the rdm1 and rdm2 the symmetrising driver returns with         *)
(* FCIrdm12kern_ms0, FCIrdm12kern_a or FCIrdm12kern_b, the sum over k of  *)
(* rdm2[(i,j),(k,k)] is N * rdm1[(i,j)] for all orbitals i and j, N the   *)
(* number of electrons the kernel's T1 covers.                            *)
C7_ContractionIdentity ==
    (/\ pc = "returned"
     /\ arg.symm # 0
     /\ arg.kern \in {"FCIrdm12kern_ms0", "FCIrdm12kern_a", "FCIrdm12kern_b"}) =>
        LET n == arg.norb
            nn == nnorb
        IN  \A i, j \in 0 .. n - 1 :
                SumTo([k \in 0 .. n - 1 |-> rdm2[(i * n + j) * nn + k * n + k]], n)
                    = Covered(arg.kern) * rdm1[i * n + j]

\* the record compress_link has made of raw quadruple r holds its values
Preserved(clink, link_index, r) ==
    /\ EXTRACT_A(clink[r]) = link_index[r * 4 + 0]
    /\ EXTRACT_I(clink[r]) = link_index[r * 4 + 1]
    /\ EXTRACT_ADDR(clink[r]) = link_index[r * 4 + 2]
    /\ EXTRACT_SIGN(clink[r]) = link_index[r * 4 + 3]

\* the values the claim takes the fields to hold
InRange(link_index, r) ==
    /\ link_index[r * 4 + 0] \in 0 .. CHAR_RANGE - 1
    /\ link_index[r * 4 + 1] \in 0 .. CHAR_RANGE - 1
    /\ link_index[r * 4 + 2] >= 0
    /\ link_index[r * 4 + 3] \in {1, -1}

(* C8: once the link tables are compacted there is one record for each    *)
(* position j of each string k, at k*nlink + j, and if the raw quadruple  *)
(* at that place has 0 <= a, i <= 255, a destination >= 0 and a sign of   *)
(* +1 or -1 then the fields read back from the record are that a, i,      *)
(* destination and sign.                                                  *)
C8_CompactorPreserves ==
    pc = "parallel" =>
        /\ DOMAIN clinka = 0 .. arg.na * arg.nlinka - 1
        /\ DOMAIN clinkb = 0 .. arg.nb * arg.nlinkb - 1
        /\ \A k \in 0 .. arg.na - 1, j \in 0 .. arg.nlinka - 1 :
              InRange(arg.link_indexa, k * arg.nlinka + j)
                  => Preserved(clinka, arg.link_indexa, k * arg.nlinka + j)
        /\ \A k \in 0 .. arg.nb - 1, j \in 0 .. arg.nlinkb - 1 :
              InRange(arg.link_indexb, k * arg.nlinkb + j)
                  => Preserved(clinkb, arg.link_indexb, k * arg.nlinkb + j)

\* what the entry point called returns from output arrays that hold zeros
FromZeros ==
    IF arg.entry \in DirectEntries
    THEN [rdm1 |-> Direct(arg.entry, build, ZeroOut(arg).rdm1, arg.bra, arg.ket,
                          arg.norb, arg.na, arg.nb, arg.nlinka, arg.nlinkb,
                          arg.link_indexa, arg.link_indexb),
          rdm2 |-> rdm2]
    ELSE Run(build, arg)

(* C9: what FCIrdm12_drv leaves in rdm1 and rdm2, and what FCImake_rdm1a,  *)
(* FCImake_rdm1b, FCItrans_rdm1a and FCItrans_rdm1b leave in rdm1, is what *)
(* the call leaves there when the arrays held zeros before it, whatever    *)
(* they held: a fill by the caller or the result of an earlier call.       *)
C9_PureInOutputs == pc = "returned" => Returned(FromZeros)

\* a second call has returned something on arrays that the caller had filled
\* and the first call had left its result in
C9_Witness ==
    /\ pc = "returned"
    /\ ncall = MaxCalls
    /\ \E e \in DOMAIN rdm1 : rdm1[e] # 0
    /\ \E e \in DOMAIN rdm2 : rdm2[e] = 7

(* C10: once malloc has returned NULL for a buffer of the call, the call  *)
(* is aborted and its caller told: it neither goes on nor returns as      *)
(* usual nor is the process killed by a write through the null pointer.   *)
C10_AllocFailureAborts == fault # "none" => pc = "aborted"

\* ci[a*na + b] = ci[b*na + a]
ExchangeSymmetric(ci, na) ==
    \A a, b \in 0 .. na - 1 : ci[a * na + b] = ci[b * na + a]

(* C11: for coefficients symmetric under the exchange of alpha and beta,  *)
(* FCImake_rdm12_spin0 returns the rdm1 and rdm2 that FCImake_rdm12_ms0   *)
(* returns for them, whatever the number of strings and the size of the   *)
(* beta blocks.                                                           *)
C11_Spin0EqualsMs0 ==
    (/\ pc = "returned"
     /\ arg = FCImake_rdm12_spin0(arg.bra, arg.ket, arg.norb, arg.na,
                                  arg.nlinka, arg.link_indexa)
     /\ ExchangeSymmetric(arg.ket, arg.na)) =>
        Returned(Run(build, FCImake_rdm12_ms0(arg.bra, arg.ket, arg.norb, arg.na,
                                              arg.nlinka, arg.link_indexa)))

(* C12: the kernel call the driver made last, at beta offset ib, was      *)
(* handed a fillcnt of min(bufbase, nb - ib), which keeps it within the   *)
(* nb beta strings, and contracted at most that many columns: in          *)
(* FCIrdm12kern_spin0, fill0 and fill1 are at most fillcnt.               *)
C12_FillWithinBlock ==
    last.w # 0 =>
        /\ last.blen = MIN(bufbase, arg.nb - last.ib)
        /\ last.blen >= 1
        /\ last.ib + last.blen <= arg.nb
        /\ (arg.kern = "FCIrdm12kern_spin0" /\ last.strk >= last.ib) =>
              /\ spin0_fill0(last.blen, last.strk, last.ib) <= last.blen
              /\ spin0_fill1(last.blen, last.strk, last.ib) <= last.blen

\* the two-call expression of the kernel call made last: the buffer and the
\* sum it leaves under the build's order of the operands, and what the beta
\* builder followed by the alpha builder leaves
LastSum(order) ==
    LET nn == nnorb
        cl == compress_link(build, arg.link_indexa, arg.norb, arg.na, arg.nlinka)
        spin0 == arg.kern = "FCIrdm12kern_spin0"
        f0 == IF spin0 THEN spin0_fill0(last.blen, last.strk, last.ib)
              ELSE last.blen
        f1 == IF spin0 THEN spin0_fill1(last.blen, last.strk, last.ib)
              ELSE last.blen
        buf == IF spin0 THEN Zeros(nn * arg.na) ELSE malloc(nn * last.blen)
    IN  SumOfContractors(order, arg.ket, buf, f0, f1, last.strk, last.ib,
                         arg.norb, arg.na, arg.nlinka, cl)

BetaThenAlpha ==
    LET nn == nnorb
        cl == compress_link(build, arg.link_indexa, arg.norb, arg.na, arg.nlinka)
        spin0 == arg.kern = "FCIrdm12kern_spin0"
        f0 == IF spin0 THEN spin0_fill0(last.blen, last.strk, last.ib)
              ELSE last.blen
        f1 == IF spin0 THEN spin0_fill1(last.blen, last.strk, last.ib)
              ELSE last.blen
        buf == IF spin0 THEN Zeros(nn * arg.na) ELSE malloc(nn * last.blen)
        b == rdm2_0b_t1(arg.ket, buf, f0, last.strk, arg.norb, arg.na,
                        arg.nlinka, cl, last.ib * arg.nlinka)
        a == rdm2_a_t1(arg.ket, last.ib, b.t1, f1, last.strk, arg.norb, arg.na,
                       arg.nlinka, cl)
    IN  [t1 |-> a.t1, csum |-> b.csum + a.csum]

\* the kernel call made last evaluated the two-call expression
SumEvaluated ==
    /\ last.w # 0
    /\ arg.kern \in SumKernels
    /\ ~(arg.kern = "FCIrdm12kern_spin0" /\ last.strk < last.ib)

(* C13: in kern_ms0_ab and in FCIrdm12kern_spin0, whatever the order in   *)
(* which the build evaluates the two calls added, the T1 buffer holds in  *)
(* the columns contracted what the beta builder followed by the alpha     *)
(* builder leaves there, and the sum returned is the sum of the two sums  *)
(* of squares.                                                            *)
C13_BetaBeforeAlpha ==
    SumEvaluated =>
        LET T == LastSum(build.order)
            E == BetaThenAlpha
            cols == IF arg.kern = "FCIrdm12kern_spin0"
                    THEN spin0_fill1(last.blen, last.strk, last.ib)
                    ELSE last.blen
        IN  /\ T.csum = E.csum
            /\ \A e \in 0 .. cols * nnorb - 1 : T.t1[e] = E.t1[e]

\* the workers inside the critical section
InReduction == {w \in Workers : wpc[w] = "reduce"}

\* rdm1 and what the workers hold in pdm1 that is still to be added to it,
\* and the same of rdm2
Held1 ==
    [e \in DOMAIN rdm1 |->
        rdm1[e] + SumTo([k \in 0 .. nthreads - 1 |->
                            IF wpc[k + 1] \in {"for", "kernel", "critical"}
                            THEN pdm1[k + 1][e] ELSE 0], nthreads)]

Held2 ==
    [e \in DOMAIN rdm2 |->
        rdm2[e] + SumTo([k \in 0 .. nthreads - 1 |->
                            IF wpc[k + 1] \in {"for", "kernel", "critical", "reduce"}
                            THEN pdm2[k + 1][e] ELSE 0], nthreads)]

(* C14: at most one worker is inside the reduction, and it is the one     *)
(* holding the critical section.  In the parallel region the compacted    *)
(* link tables are never written; rdm1 and rdm2 are written only by the   *)
(* worker inside the reduction, which adds its own pdm1 and pdm2; a       *)
(* worker's pdm1 and pdm2 are written only by its own steps; a worker     *)
(* enters the reduction after the last of its kernel calls and never      *)
(* comes back to it; and but for the kernel calls, nothing changes the    *)
(* sum of the output and the private accumulators not yet added to it, so *)
(* that the region ends, every worker done, with that sum in the output.  *)
C14_ReductionExclusive ==
    /\ [](/\ Cardinality(InReduction) <= 1
          /\ \A w \in Workers : (lock = w) <=> (w \in InReduction))
    /\ [][pc = "parallel" =>
            /\ pc' = "parallel" => links' = links
            /\ outs' # outs /\ pc' = "parallel" =>
                  \E w \in InReduction \cup {v \in Workers : wpc[v] = "critical"} :
                     /\ wpc'[w] # wpc[w]
                     /\ rdm1' \in {rdm1, AddInto(rdm1, pdm1[w])}
                     /\ rdm2' \in {rdm2, AddInto(rdm2, pdm2[w])}
            /\ \A w \in Workers :
                  /\ <<wpc'[w], wib'[w], wstrk'[w]>> = <<wpc[w], wib[w], wstrk[w]>> =>
                        pdm1'[w] = pdm1[w] /\ pdm2'[w] = pdm2[w]
                  /\ <<wpc'[w], wib'[w], wstrk'[w]>> # <<wpc[w], wib[w], wstrk[w]>>
                        /\ wpc[w] \in {"start", "for", "kernel"} => outs' = outs
                  /\ wpc[w] = "critical" /\ wpc'[w] # wpc[w] =>
                        wpc'[w] = "reduce" /\ wib[w] >= arg.nb
                  /\ wpc[w] = "reduce" => wpc'[w] \in {"reduce", "done"}
                  /\ wpc[w] = "done" => wpc'[w] = "done"
            /\ calls' = calls /\ pc' = "parallel" =>
                  Held1' = Held1 /\ Held2' = Held2
            /\ pc' = "returned" =>
                  /\ \A w \in Workers : wpc[w] = "done"
                  /\ arg.symm = 0 => outs' = outs]_vars

\* one worker is adding what its kernel calls left in its accumulators while
\* another, its kernel calls made, waits for the critical section with its own
C14_Witness ==
    /\ pc = "parallel"
    /\ \E w, v \in Workers :
          /\ wpc[w] = "reduce" /\ wpc[v] = "critical"
          /\ pdm2[w] # Zeros(nnorb * nnorb)
          /\ pdm1[v] # Zeros(nnorb)
          /\ \E c, d \in DOMAIN calls : calls[c] = <<w>> /\ calls[d] = <<v>>

\* the general routine of the channel of a symmetric direct routine
TransOf(entry) ==
    IF entry = "FCImake_rdm1a" THEN "FCItrans_rdm1a" ELSE "FCItrans_rdm1b"

(* C15: FCImake_rdm1a and FCImake_rdm1b return a symmetric matrix whose   *)
(* entries rdm1[a*norb+i], a >= i, are those FCItrans_rdm1a and           *)
(* FCItrans_rdm1b return for bra = ket = the coefficients, and what they  *)
(* return does not depend on their bra argument.                          *)
C15_MakeEqualsTrans ==
    (pc = "returned" /\ arg.entry \in {"FCImake_rdm1a", "FCImake_rdm1b"}) =>
        LET T == Direct(TransOf(arg.entry), build, rdm1, arg.ket, arg.ket,
                        arg.norb, arg.na, arg.nb, arg.nlinka, arg.nlinkb,
                        arg.link_indexa, arg.link_indexb)
            M == Direct(arg.entry, build, rdm1, arg.ket, arg.ket,
                        arg.norb, arg.na, arg.nb, arg.nlinka, arg.nlinkb,
                        arg.link_indexa, arg.link_indexb)
        IN  /\ \A a, i \in 0 .. arg.norb - 1 :
                  /\ a >= i => rdm1[a * arg.norb + i] = T[a * arg.norb + i]
                  /\ rdm1[i * arg.norb + a] = rdm1[a * arg.norb + i]
            /\ rdm1 = M
====
